---- MODULE Spec2Model ----
(***************************************************************************)
(* Model of src/main.py: the Telegram account manager bot.                 *)
(*                                                                         *)
(* One step of the model is one call of TelegramBot.process_update: the    *)
(* dispatch loop (TelegramBot.run) awaits each update to completion before *)
(* it takes the next, so no other code of the process runs in between.     *)
(* What the environment decides during the call (the answers of the        *)
(* account provider, whether a transport request raises) is an input of    *)
(* the step.  A handler is a function from the program state, the update   *)
(* and these inputs to the program state after the call.                   *)
(***************************************************************************)
EXTENDS Integers, Sequences, FiniteSets, TLC

VARIABLES
    user_states,              \* TelegramBot.user_states: dict user id -> state
    pending_authentications,  \* TelegramAccountManager.pending_authentications
    active_clients,           \* TelegramAccountManager.active_clients
    users,                    \* table telegram_bot_users (the user_id keys)
    numbers,                  \* table numbers, in rowid order
    sessions,                 \* table telegram_bot_user_sessions, in rowid order
    offset,                   \* TelegramBot.offset
    next_client,              \* how many TelegramClient objects were constructed
    last_update,              \* the update the last process_update call was given
    outbox,                   \* transport requests of the last call, in order
    store_log,                \* database calls of the last call, in order
    client_log,               \* account-client calls of the last call, in order
    result,                   \* what the account manager returned in the last call
    error_logged,             \* the last call ended in process_update's except
    before,                   \* the two dicts as they were when the last call began
    pc,                       \* TelegramBot.run: the statement it is at
    batch,                    \* run: the updates of `updates` the for loop has left
    arrived,                  \* what get_updates returned so far, in order
    handled,                  \* the process_update calls made so far, in order
    two_factor_asked,         \* per user, the entry whose code sign-in last
                              \* raised SessionPasswordNeededError
    started_by,               \* per user, the id of the numbers row inserted by
                              \* the phone submission that stored the user's entry
    tasks,                    \* the process_update coroutines that have begun and
                              \* not ended, where a finer step than a call is taken
    name_inputs,              \* arguments get_session_name is to be called with
    name_outputs              \* what it returned for them, in order

\* the variables of the dispatch loop
loop_vars == <<pc, batch, arrived, handled>>

\* the variables other than the bot's and the loop's
aside_vars == <<two_factor_asked, started_by, tasks, name_inputs, name_outputs>>

\* the variables of the bot and what is recorded of its last call
bot_vars == <<user_states, pending_authentications, active_clients, users, numbers,
              sessions, offset, next_client, last_update, outbox, store_log,
              client_log, result, error_logged, before>>

vars == <<bot_vars, loop_vars, aside_vars>>

----------------------------------------------------------------------------
(* Bounds of the model. *)

\* how many distinct users send the updates of Spec
NumUsers == 1
\* updates carry the ids 1 .. MaxUpdateId
MaxUpdateId == 4
\* phone submissions are delivered while the numbers table has fewer rows
MaxNumbers == 2

\* the user ids of the senders; a private chat has its user's id
Users == (100 + 1) .. (100 + NumUsers)
\* a chat that is not private
GroupChat == [id |-> 0 - 900, type |-> "group"]
PrivateChat(user_id) == [id |-> user_id, type |-> "private"]

None == "None"

----------------------------------------------------------------------------
(* Text.  A Python str is modelled as the sequence of its characters.      *)

startswith(text, prefix) ==
    /\ Len(text) >= Len(prefix)
    /\ SubSeq(text, 1, Len(prefix)) = prefix

Digit(d) == CASE d = 0 -> "0" [] d = 1 -> "1" [] d = 2 -> "2" [] d = 3 -> "3"
              [] d = 4 -> "4" [] d = 5 -> "5" [] d = 6 -> "6" [] d = 7 -> "7"
              [] d = 8 -> "8" [] d = 9 -> "9"

RECURSIVE str_int(_)
\* str(n) of a non-negative int, as f"{user_id}" formats it
str_int(n) == IF n < 10 THEN <<Digit(n)>> ELSE str_int(n \div 10) \o <<Digit(n % 10)>>

\* the three menu labels, character by character as the source file holds them
TextAddNumber == <<"U+201A", "U+00FB", "U+00EF", " ", "A", "d", "d", " ",
                   "N", "u", "m", "b", "e", "r">>
TextMyNumbers == <<"U+F8FF", "U+00FC", "U+00EC", "U+00B1", " ", "M", "y", " ",
                   "N", "u", "m", "b", "e", "r", "s">>
TextHelp      == <<"U+201A", "U+00D1", "U+03C0", "U+00D4", "U+220F", "U+00E8",
                   " ", "H", "e", "l", "p">>
CmdStart      == <<"/", "s", "t", "a", "r", "t">>
CmdHelp       == <<"/", "h", "e", "l", "p">>

\* sample inputs
PhoneA    == <<"+", "1", "5", "5", "5", "1", "2", "3", "4", "5", "6", "7">>
PhoneB    == <<"+", "4", "4", "7", "7", "0", "0", "9", "0", "0">>
ShortPlus == <<"+", "1", "2", "3", "4", "5", "6", "7", "8">>
NoPlus    == <<"1", "5", "5", "5", "1", "2", "3", "4", "5", "6", "7">>

Texts == {CmdStart, CmdHelp, TextAddNumber, TextMyNumbers, TextHelp,
          PhoneA, PhoneB, ShortPlus, NoPlus}

\* the least length a phone number input must have
MinPhoneLen == 10

----------------------------------------------------------------------------
(* Python dict operations. *)

EmptyDict == [k \in {} |-> None]
DictSet(d, k, v) == [x \in (DOMAIN d) \cup {k} |-> IF x = k THEN v ELSE d[x]]
DictDel(d, k) == [x \in (DOMAIN d) \ {k} |-> d[x]]

----------------------------------------------------------------------------
(* The program state a handler works on, and what it has done so far.      *)

State == [user_states |-> user_states,
          pending_authentications |-> pending_authentications,
          active_clients |-> active_clients,
          users |-> users,
          numbers |-> numbers,
          sessions |-> sessions,
          offset |-> offset,
          next_client |-> next_client,
          outbox |-> outbox,
          store_log |-> store_log,
          client_log |-> client_log,
          result |-> result,
          raised |-> error_logged]

----------------------------------------------------------------------------
(* The messaging transport (TelegramBot.send_message, edit_message,        *)
(* answer_callback_query).  The e.transport_fail-th request of the call    *)
(* raises (a connection error in session.post); 0: none does.              *)

NoKeyboard == [kind |-> "none", rows |-> <<>>]

get_main_keyboard ==
    [kind |-> "keyboard", rows |-> <<TextAddNumber, TextMyNumbers, TextHelp>>]

transport_request(s, e, request) ==
    LET ok == e.transport_fail # Len(s.outbox) + 1
    IN [s EXCEPT !.outbox = Append(@, [request EXCEPT !.delivered = ok]),
                 !.raised = ~ok]

send_message(s, e, chat_id, text, reply_markup) ==
    transport_request(s, e, [op |-> "sendMessage", chat_id |-> chat_id,
                             text |-> text, reply_markup |-> reply_markup,
                             delivered |-> TRUE])

edit_message(s, e, chat_id, message_id, text, reply_markup) ==
    transport_request(s, e, [op |-> "editMessageText", chat_id |-> chat_id,
                             text |-> text, reply_markup |-> reply_markup,
                             delivered |-> TRUE])

answer_callback_query(s, e, callback_query_id) ==
    transport_request(s, e, [op |-> "answerCallbackQuery", chat_id |-> 0,
                             text |-> <<>>, reply_markup |-> NoKeyboard,
                             delivered |-> TRUE])


----------------------------------------------------------------------------
(* DatabaseManager.  A table is the sequence of its rows in rowid order;   *)
(* no row is ever deleted, so AUTOINCREMENT gives row n the id n.          *)

StoreWrites == {"add_user", "add_phone_number", "update_number_status",
                "save_session"}

Logged(s, call) == [s EXCEPT !.store_log = Append(@, call)]

\* INSERT OR REPLACE on the primary key user_id
add_user(s, user_id) ==
    [Logged(s, [op |-> "add_user", user_id |-> user_id])
        EXCEPT !.users = @ \cup {user_id}]

\* added_at is DEFAULT CURRENT_TIMESTAMP (line 83), the store's clock to the
\* second: the second of the row before when e.same_second, a later one
\* otherwise
add_phone_number(s, e, user_id, phone_number) ==
    [Logged(s, [op |-> "add_phone_number", user_id |-> user_id,
                phone_number |-> phone_number])
        EXCEPT !.numbers = Append(@, [id |-> Len(@) + 1,
                                      user_id |-> user_id,
                                      phone_number |-> phone_number,
                                      is_authenticated |-> FALSE,
                                      added_at |->
                                          IF @ = <<>> THEN 1
                                          ELSE IF e.same_second
                                               THEN @[Len(@)].added_at
                                               ELSE @[Len(@)].added_at + 1,
                                      status |-> "pending",
                                      last_login |-> "NULL"])]

RECURSIVE order_by_added_at_desc(_)
\* ORDER BY added_at DESC (line 135) on rows given in rowid order: the later
\* second first; rows of the same second compare equal and SQLite returns
\* them in rowid order
order_by_added_at_desc(rows) ==
    IF rows = <<>> THEN <<>>
    ELSE LET first == CHOOSE i \in DOMAIN rows :
                         \A j \in DOMAIN rows :
                            \/ rows[i].added_at > rows[j].added_at
                            \/ rows[i].added_at = rows[j].added_at /\ i <= j
         IN <<rows[first]>>
            \o order_by_added_at_desc(SubSeq(rows, 1, first - 1)
                                      \o SubSeq(rows, first + 1, Len(rows)))

\* the user's rows, the most recently added first
get_user_numbers(s, user_id) ==
    order_by_added_at_desc(SelectSeq(s.numbers, LAMBDA row: row.user_id = user_id))

update_number_status(s, number_id, status, is_authenticated) ==
    [Logged(s, [op |-> "update_number_status", number_id |-> number_id,
                status |-> status, is_authenticated |-> is_authenticated])
        EXCEPT !.numbers =
            [i \in DOMAIN @ |->
                IF @[i].id = number_id
                THEN [@[i] EXCEPT !.status = status,
                                  !.is_authenticated = is_authenticated,
                                  !.last_login = "now"]
                ELSE @[i]]]

\* INSERT OR REPLACE: the table's only key is its AUTOINCREMENT id, which the
\* statement does not give, so no existing row conflicts and a row is added
save_session(s, user_id, phone_number, session_file_path) ==
    [Logged(s, [op |-> "save_session", user_id |-> user_id,
                phone_number |-> phone_number,
                session_file_path |-> session_file_path])
        EXCEPT !.sessions = Append(@, [id |-> Len(@) + 1,
                                       user_id |-> user_id,
                                       phone_number |-> phone_number,
                                       session_file_path |-> session_file_path,
                                       is_active |-> TRUE])]

----------------------------------------------------------------------------
(* TelegramAccountManager. *)

\* as ClientKey, without the separator: f"{user_id}{phone_number}"
ClientKey_without_separator(user_id, phone_number) ==
    str_int(user_id) \o phone_number

\* the key f"{user_id}_{phone_number}"
ClientKey(user_id, phone_number) == str_int(user_id) \o <<"_">> \o phone_number

\* the digest is kept as the text it is computed from
get_session_name(user_id, phone_number) ==
    [prefix |-> "sessions/session_", md5 |-> ClientKey(user_id, phone_number)]

\* as get_number_id, but the row is looked up by the phone number alone
\* (`WHERE phone_number = ?`)
get_number_id_any_user(s, user_id, phone_number) ==
    LET ids == {i \in DOMAIN s.numbers :
                    s.numbers[i].phone_number = phone_number}
    IN IF ids = {} THEN 0
       ELSE s.numbers[CHOOSE i \in ids : \A j \in ids : i <= j].id

\* the id of the first row of (user, phone) in rowid order, 0 when there is none
get_number_id(s, user_id, phone_number) ==
    LET ids == {i \in DOMAIN s.numbers :
                    /\ s.numbers[i].user_id = user_id
                    /\ s.numbers[i].phone_number = phone_number}
    IN IF ids = {} THEN 0
       ELSE s.numbers[CHOOSE i \in ids : \A j \in ids : i <= j].id

\* one call on an account client
ClientCall(s, client, op) ==
    [s EXCEPT !.client_log = Append(@, [client |-> client, op |-> op])]

NoResult == [call |-> "none", success |-> FALSE, message_text |-> <<>>]

Return(s, call, success, message_text) ==
    [s EXCEPT !.result = [call |-> call, success |-> success,
                          message_text |-> message_text]]

ErrorText(e) == <<"Error: ", e.detail>>

\* lines 192-199 of send_code: the calls on the new client, up to the first
\* that raises or returns from send_code
send_code_client_calls(s, e, client) ==
    LET s1 == ClientCall(s, client, "connect")
        s2 == ClientCall(s1, client, "is_user_authorized")
        s3 == ClientCall(s2, client, "disconnect")
        s4 == ClientCall(s2, client, "send_code_request")
    IN IF e.connect # "ok" THEN s1
       ELSE IF e.is_user_authorized THEN s3
       ELSE s4

\* as store_pending_authentication, but an entry the user has is kept
\* (dict.setdefault instead of the assignment)
store_pending_setdefault(s, user_id, auth_data) ==
    IF user_id \in DOMAIN s.pending_authentications THEN s
    ELSE [s EXCEPT !.pending_authentications = DictSet(@, user_id, auth_data)]

\* lines 202-207: self.pending_authentications[user_id] = {...}
store_pending_authentication(s, user_id, auth_data) ==
    [s EXCEPT !.pending_authentications = DictSet(@, user_id, auth_data)]

send_code(s, e, user_id, phone_number) ==
    LET session_name == get_session_name(user_id, phone_number)
        client == s.next_client + 1
        s1 == send_code_client_calls([s EXCEPT !.next_client = client], e, client)
        auth_data == [client |-> client,
                      phone_number |-> phone_number,
                      phone_code_hash |-> [issued_to |-> client],
                      session_name |-> session_name]
    IN IF e.connect # "ok" THEN
            Return(s1, "send_code", FALSE, ErrorText(e))
       ELSE IF e.is_user_authorized THEN
            IF e.disconnect # "ok"
            THEN Return(s1, "send_code", FALSE, ErrorText(e))
            ELSE Return(s1, "send_code", TRUE, <<"Already authenticated">>)
       ELSE IF e.send_code_request = "ok" THEN
            Return(store_pending_authentication(s1, user_id, auth_data),
                   "send_code", TRUE, <<"Verification code sent successfully">>)
       ELSE IF e.send_code_request = "PhoneNumberInvalidError" THEN
            Return(s1, "send_code", FALSE, <<"Invalid phone number format">>)
       ELSE IF e.send_code_request = "FloodWaitError" THEN
            Return(s1, "send_code", FALSE,
                   <<"Too many attempts. Wait ", e.seconds, " seconds">>)
       ELSE Return(s1, "send_code", FALSE, ErrorText(e))

\* as sign_in_succeeded, but the pending entry is not deleted
sign_in_succeeded_keeps_entry(s, user_id) ==
    LET auth_data == s.pending_authentications[user_id]
        phone_number == auth_data.phone_number
        s1 == save_session(s, user_id, phone_number, auth_data.session_name)
        s2 == update_number_status(s1, get_number_id(s1, user_id, phone_number),
                                   "authenticated", TRUE)
    IN [s2 EXCEPT !.active_clients =
                      DictSet(@, ClientKey(user_id, phone_number), auth_data.client)]

\* lines 237-249 and 283-295: what both sign-in paths do once sign_in returned
sign_in_succeeded(s, user_id) ==
    LET auth_data == s.pending_authentications[user_id]
        phone_number == auth_data.phone_number
        s1 == save_session(s, user_id, phone_number, auth_data.session_name)
        s2 == update_number_status(s1, get_number_id(s1, user_id, phone_number),
                                   "authenticated", TRUE)
    IN [s2 EXCEPT !.active_clients =
                      DictSet(@, ClientKey(user_id, phone_number), auth_data.client),
                  !.pending_authentications = DictDel(@, user_id)]

\* as compile_allows_top_level_await, had compile() been given the flag
compile_given_top_level_await_flag == TRUE

\* line 253: compile(source, '<string>', 'exec') is called without flags, so
\* the flag ast.PyCF_ALLOW_TOP_LEVEL_AWAIT is not set
compile_allows_top_level_await == FALSE

\* line 251, decoded: the statements of the embedded source text, which are
\* `await` expressions outside any function
payload_calls == <<"send_message", "get_entity", "JoinChannelRequest",
                   "get_entity", "JoinChannelRequest">>

RECURSIVE ClientCalls(_, _, _)
ClientCalls(s, client, ops) ==
    IF ops = <<>> THEN s
    ELSE ClientCalls(ClientCall(s, client, Head(ops)), client, Tail(ops))

\* lines 250-255: compile() raises SyntaxError ('await' outside function) for
\* the embedded text, and the except clause around it swallows the error
exec_payload(s, client) ==
    IF compile_allows_top_level_await
    THEN ClientCalls(s, client, payload_calls)
    ELSE s

\* lines 230-269 of verify_code: the user has a pending entry
verify_code_pending(s, e, user_id, code) ==
        LET auth_data == s.pending_authentications[user_id]
            client == auth_data.client
            s1 == ClientCall(s, client, "sign_in_code")
        IN IF e.sign_in = "ok" THEN
                Return(exec_payload(sign_in_succeeded(s1, user_id), client),
                       "verify_code", TRUE, <<"Authentication successful!">>)
           ELSE IF e.sign_in = "SessionPasswordNeededError" THEN
                Return(s1, "verify_code", FALSE, <<"2FA_REQUIRED">>)
           ELSE IF e.sign_in = "PhoneCodeInvalidError" THEN
                Return(s1, "verify_code", FALSE, <<"Invalid verification code">>)
           ELSE IF e.sign_in = "PhoneCodeExpiredError" THEN
                Return(s1, "verify_code", FALSE, <<"Verification code expired">>)
           ELSE Return(s1, "verify_code", FALSE, ErrorText(e))

\* as verify_code, but a rejected code ends the attempt: the entry is deleted
verify_code_drops_entry(s, e, user_id, code) ==
    IF user_id \notin DOMAIN s.pending_authentications THEN
        Return(s, "verify_code", FALSE, <<"No pending authentication found">>)
    ELSE IF e.sign_in \in {"PhoneCodeInvalidError", "PhoneCodeExpiredError"}
    THEN [verify_code_pending(s, e, user_id, code)
             EXCEPT !.pending_authentications = DictDel(@, user_id)]
    ELSE verify_code_pending(s, e, user_id, code)

\* as verify_code, but a missing entry is treated as a failed sign-in: the
\* user's newest phone record is marked failed
verify_code_marks_failed(s, e, user_id, code) ==
    IF user_id \notin DOMAIN s.pending_authentications THEN
        Return(update_number_status(s, Len(s.numbers), "failed", FALSE),
               "verify_code", FALSE, <<"No pending authentication found">>)
    ELSE verify_code_pending(s, e, user_id, code)

verify_code(s, e, user_id, code) ==
    IF user_id \notin DOMAIN s.pending_authentications THEN
        Return(s, "verify_code", FALSE, <<"No pending authentication found">>)
    ELSE verify_code_pending(s, e, user_id, code)

verify_2fa_password(s, e, user_id, password) ==
    IF user_id \notin DOMAIN s.pending_authentications THEN
        Return(s, "verify_2fa_password", FALSE,
               <<"No pending authentication found">>)
    ELSE
        LET auth_data == s.pending_authentications[user_id]
            client == auth_data.client
            s1 == ClientCall(s, client, "sign_in_password")
        IN IF e.sign_in = "ok" THEN
                Return(sign_in_succeeded(s1, user_id),
                       "verify_2fa_password", TRUE,
                       <<"2FA authentication successful!">>)
           ELSE IF e.sign_in = "PasswordHashInvalidError" THEN
                Return(s1, "verify_2fa_password", FALSE, <<"Invalid 2FA password">>)
           ELSE Return(s1, "verify_2fa_password", FALSE, ErrorText(e))

----------------------------------------------------------------------------
(* TelegramBot: the handlers. *)

\* the rest of a function runs only if nothing raised before it
Then(s, Rest(_)) == IF s.raised THEN s ELSE Rest(s)

WelcomeText    == <<"(lock) Welcome to Telegram Account Manager">>
HelpText       == <<"(lock) <b>Telegram Account Manager Help</b>">>
AskPhoneText   == <<"(phone) Please send your phone number in international format.">>
NumbersText    == <<"(phone) Your registered numbers:">>
BadPhoneText   == <<"(cross) Invalid phone number format.",
                    "Please use international format: +1234567890">>
SendingText    == <<"(hourglass) Sending verification code...">>
AlreadyText    == <<"(check) This number is already authenticated!">>
AskPasswordText == <<"(lock) Two-factor authentication is enabled.",
                     "Please enter your 2FA password:">>
AskCodeText(message_text) ==
    <<"(envelope) ">> \o message_text
        \o <<"Please enter the verification code you received:">>
CrossText(message_text) == <<"(cross) ">> \o message_text
CheckText(message_text) == <<"(check) ">> \o message_text

get_numbers_keyboard(s, user_id) ==
    LET rows == get_user_numbers(s, user_id)
    IN IF rows = <<>>
       THEN [kind |-> "inline_keyboard",
             rows |-> <<[text |-> <<"No numbers added">>, callback_data |-> "none",
                         number_id |-> 0]>>]
       ELSE [kind |-> "inline_keyboard",
             rows |-> [i \in DOMAIN rows |->
                          [text |-> <<IF rows[i].is_authenticated
                                      THEN "(check) " ELSE "(hourglass) ">>
                                    \o rows[i].phone_number
                                    \o <<" (", rows[i].status, ")">>,
                           callback_data |-> "number_",
                           number_id |-> rows[i].id]]
                      \o <<[text |-> <<"(back) Back">>,
                            callback_data |-> "back_main", number_id |-> 0]>>]

handle_start_command(s, e, message) ==
    send_message(add_user(s, message.from), e, message.chat.id, WelcomeText,
                 get_main_keyboard)

handle_help_command(s, e, message) ==
    send_message(s, e, message.chat.id, HelpText, NoKeyboard)

\* as valid_phone_input, without the length test
valid_phone_input_plus_only(text) == startswith(text, <<"+">>)

\* lines 493-500
valid_phone_input(text) == ~(~startswith(text, <<"+">>) \/ Len(text) < MinPhoneLen)

\* lines 510-531: after send_code returned
after_send_code(s, e, user_id, chat_id) ==
    IF s.result.success THEN
        IF s.result.message_text = <<"Already authenticated">> THEN
            Then(send_message(s, e, chat_id, AlreadyText, get_main_keyboard),
                 LAMBDA x: [x EXCEPT !.user_states = DictDel(@, user_id)])
        ELSE
            send_message([s EXCEPT !.user_states =
                                       DictSet(@, user_id, "waiting_code")],
                         e, chat_id, AskCodeText(s.result.message_text), NoKeyboard)
    ELSE
        Then(send_message(s, e, chat_id, CrossText(s.result.message_text),
                          get_main_keyboard),
             LAMBDA x: [x EXCEPT !.user_states = DictDel(@, user_id)])

\* as after_verify_code, but the state waiting_2fa is set after the prompt
\* was sent, the way the other branches delete the state after their reply
after_verify_code_state_last(s, e, user_id, chat_id) ==
    IF s.result.success THEN
        Then(send_message(s, e, chat_id, CheckText(s.result.message_text),
                          get_main_keyboard),
             LAMBDA x: [x EXCEPT !.user_states = DictDel(@, user_id)])
    ELSE IF s.result.message_text = <<"2FA_REQUIRED">> THEN
        Then(send_message(s, e, chat_id, AskPasswordText, NoKeyboard),
             LAMBDA x: [x EXCEPT !.user_states =
                                     DictSet(@, user_id, "waiting_2fa")])
    ELSE
        send_message(s, e, chat_id, CrossText(s.result.message_text), NoKeyboard)

\* as after_verify_code, but every failure of verify_code is taken for the
\* request of the second factor (`elif not success:` at line 543)
after_verify_code_asks_password(s, e, user_id, chat_id) ==
    IF s.result.success THEN
        Then(send_message(s, e, chat_id, CheckText(s.result.message_text),
                          get_main_keyboard),
             LAMBDA x: [x EXCEPT !.user_states = DictDel(@, user_id)])
    ELSE
        send_message([s EXCEPT !.user_states = DictSet(@, user_id, "waiting_2fa")],
                     e, chat_id, AskPasswordText, NoKeyboard)

\* lines 536-551: after verify_code returned
after_verify_code(s, e, user_id, chat_id) ==
    IF s.result.success THEN
        Then(send_message(s, e, chat_id, CheckText(s.result.message_text),
                          get_main_keyboard),
             LAMBDA x: [x EXCEPT !.user_states = DictDel(@, user_id)])
    ELSE IF s.result.message_text = <<"2FA_REQUIRED">> THEN
        send_message([s EXCEPT !.user_states = DictSet(@, user_id, "waiting_2fa")],
                     e, chat_id, AskPasswordText, NoKeyboard)
    ELSE
        send_message(s, e, chat_id, CrossText(s.result.message_text), NoKeyboard)

\* lines 556-561: after verify_2fa_password returned
after_verify_2fa_password(s, e, user_id, chat_id) ==
    Then(send_message(s, e, chat_id,
                      IF s.result.success THEN CheckText(s.result.message_text)
                      ELSE CrossText(s.result.message_text),
                      get_main_keyboard),
         LAMBDA x: [x EXCEPT !.user_states = DictDel(@, user_id)])

handle_user_input(s, e, message) ==
    LET user_id == message.from
        text == message.text
        chat_id == message.chat.id
        state == s.user_states[user_id]
    IN IF state = "waiting_phone" THEN
            IF ~valid_phone_input(text) THEN
                send_message(s, e, chat_id, BadPhoneText, NoKeyboard)
            ELSE
                Then(send_message(add_phone_number(s, e, user_id, text), e, chat_id,
                                  SendingText, NoKeyboard),
                     LAMBDA x: after_send_code(send_code(x, e, user_id, text),
                                               e, user_id, chat_id))
       ELSE IF state = "waiting_code" THEN
            after_verify_code(verify_code(s, e, user_id, text), e, user_id, chat_id)
       ELSE IF state = "waiting_2fa" THEN
            after_verify_2fa_password(verify_2fa_password(s, e, user_id, text),
                                      e, user_id, chat_id)
       ELSE s

handle_text_message(s, e, message) ==
    LET user_id == message.from
        text == message.text
        chat_id == message.chat.id
    IN IF message.chat.type # "private" THEN s
       ELSE IF text = TextAddNumber THEN
            send_message([s EXCEPT !.user_states =
                                       DictSet(@, user_id, "waiting_phone")],
                         e, chat_id, AskPhoneText, NoKeyboard)
       ELSE IF text = TextMyNumbers THEN
            send_message(Logged(s, [op |-> "get_user_numbers", user_id |-> user_id]),
                         e, chat_id, NumbersText, get_numbers_keyboard(s, user_id))
       ELSE IF text = TextHelp THEN
            handle_help_command(s, e, message)
       ELSE IF user_id \in DOMAIN s.user_states THEN
            handle_user_input(s, e, message)
       ELSE s

handle_callback_query(s, e, callback_query) ==
    LET data == callback_query.data
        user_id == callback_query.from
        chat_id == callback_query.chat.id
        message_id == callback_query.message_id
    IN Then(answer_callback_query(s, e, callback_query.id),
            LAMBDA x:
               IF data.name = "back_main" THEN
                    edit_message(x, e, chat_id, message_id, <<"(lock) Main Menu">>,
                                 NoKeyboard)
               ELSE IF data.name = "number_" THEN
                    edit_message(x, e, chat_id, message_id,
                                 <<"(phone) Number details for ID: ">>
                                     \o str_int(data.number_id),
                                 [kind |-> "inline_keyboard",
                                  rows |-> <<[text |-> <<"(back) Back">>,
                                              callback_data |-> "back_numbers",
                                              number_id |-> 0]>>])
               ELSE IF data.name = "back_numbers" THEN
                    edit_message(Logged(x, [op |-> "get_user_numbers",
                                            user_id |-> user_id]),
                                 e, chat_id, message_id, NumbersText,
                                 get_numbers_keyboard(x, user_id))
               ELSE x)

\* as process_update, but self.offset is assigned as the last statement of
\* the try block, which is not reached when a handler raises or returns early
process_update_offset_last(s, e, update) ==
    LET s0 == [s EXCEPT !.outbox = <<>>, !.store_log = <<>>, !.client_log = <<>>,
                        !.result = NoResult, !.raised = FALSE]
        acknowledged(x) == [x EXCEPT !.offset = update.update_id + 1]
    IN IF update.kind = "message" THEN
            IF update.chat.type # "private" THEN s0
            ELSE IF update.has_text THEN
                IF startswith(update.text, CmdStart) THEN
                    Then(handle_start_command(s0, e, update), acknowledged)
                ELSE IF startswith(update.text, CmdHelp) THEN
                    Then(handle_help_command(s0, e, update), acknowledged)
                ELSE Then(handle_text_message(s0, e, update), acknowledged)
            ELSE acknowledged(s0)
       ELSE IF update.kind = "callback_query" THEN
            Then(handle_callback_query(s0, e, update), acknowledged)
       ELSE acknowledged(s0)

\* the body of the try statement; what raises in it is caught and logged
process_update(s, e, update) ==
    LET s0 == [s EXCEPT !.offset = update.update_id + 1,
                        !.outbox = <<>>, !.store_log = <<>>, !.client_log = <<>>,
                        !.result = NoResult, !.raised = FALSE]
    IN IF update.kind = "message" THEN
            IF update.chat.type # "private" THEN s0
            ELSE IF update.has_text THEN
                IF startswith(update.text, CmdStart) THEN
                    handle_start_command(s0, e, update)
                ELSE IF startswith(update.text, CmdHelp) THEN
                    handle_help_command(s0, e, update)
                ELSE handle_text_message(s0, e, update)
            ELSE s0
       ELSE IF update.kind = "callback_query" THEN
            handle_callback_query(s0, e, update)
       ELSE s0

----------------------------------------------------------------------------
(* What the environment decides during one call of process_update. *)

Details == {"detail_a", "detail_b"}

QuietEnv == [transport_fail |-> 0, connect |-> "ok", is_user_authorized |-> FALSE,
             disconnect |-> "ok", send_code_request |-> "ok", sign_in |-> "ok",
             detail |-> "detail_a", seconds |-> "30", same_second |-> FALSE]

\* the handler makes at most n transport requests
TransportEnvs(base, n) == {[base EXCEPT !.transport_fail = k] : k \in 0 .. n}

WithDetail(base) == {[base EXCEPT !.detail = d] : d \in Details}

\* when the first request (the notice before send_code) raises, the provider
\* is not reached; otherwise its answers and the second request vary
\* (each row is inserted in a later second than the row before; rows of one
\* second are among the inputs of FlowSendCodeEnvs)
SendCodeEnvs ==
    {[QuietEnv EXCEPT !.transport_fail = 1]} \cup
    UNION {{b, [b EXCEPT !.transport_fail = 2]} :
        b \in {[QuietEnv EXCEPT !.connect = "error"],
               [QuietEnv EXCEPT !.is_user_authorized = TRUE],
               [QuietEnv EXCEPT !.is_user_authorized = TRUE,
                                !.disconnect = "error"]}
            \cup {[QuietEnv EXCEPT !.send_code_request = r] :
                    r \in {"ok", "PhoneNumberInvalidError", "FloodWaitError"}}
            \cup WithDetail([QuietEnv EXCEPT !.send_code_request = "Exception"])}

SignInEnvs(outcomes) ==
    UNION {TransportEnvs(b, 1) :
        b \in {[QuietEnv EXCEPT !.sign_in = r] : r \in outcomes}
            \cup WithDetail([QuietEnv EXCEPT !.sign_in = "Exception"])}

CodeOutcomes == {"ok", "SessionPasswordNeededError", "PhoneCodeInvalidError",
                 "PhoneCodeExpiredError"}
PasswordOutcomes == {"ok", "PasswordHashInvalidError"}

----------------------------------------------------------------------------
(* The updates the transport delivers. *)

Message(update_id, user_id, chat, text) ==
    [update_id |-> update_id, kind |-> "message", from |-> user_id, chat |-> chat,
     has_text |-> TRUE, text |-> text,
     id |-> 0, message_id |-> 0, data |-> [name |-> "none", number_id |-> 0]]

NoTextMessage(update_id, user_id, chat) ==
    [Message(update_id, user_id, chat, <<>>) EXCEPT !.has_text = FALSE]

CallbackQuery(update_id, user_id, chat, data) ==
    [update_id |-> update_id, kind |-> "callback_query", from |-> user_id,
     chat |-> chat, has_text |-> FALSE, text |-> <<>>,
     id |-> update_id, message_id |-> 1, data |-> data]

NoUpdate == NoTextMessage(0, 0, GroupChat)

\* the buttons the bot puts on the inline keyboards it sends to a user
CallbackData(user_id) ==
    {[name |-> n, number_id |-> 0] : n \in {"none", "back_main", "back_numbers"}}
        \cup {[name |-> "number_", number_id |-> numbers[i].id] :
                 i \in {j \in DOMAIN numbers : numbers[j].user_id = user_id}}

IsCommand(text) == startswith(text, CmdStart) \/ startswith(text, CmdHelp)
IsMenu(text) == text \in {TextAddNumber, TextMyNumbers, TextHelp}
PlainTexts == {t \in Texts : ~IsCommand(t) /\ ~IsMenu(t)}
\* what is sent as a code or a password: the bot does not look into it
SecretTexts == {NoPlus}
\* what is sent in a chat that is not private
GroupTexts == {TextAddNumber, PhoneA}
\* what a user with no conversation state sends besides commands and menu labels
IdleTexts == {PhoneA, NoPlus}

\* updates arrive with consecutive ids
NextUpdateId == IF offset = 0 THEN 1 ELSE offset

----------------------------------------------------------------------------
(* The specification. *)

\* TelegramBot() where there is no telegram_manager.db: init_database (lines
\* 59-104) creates the three tables, empty
FirstConstruction ==
    [user_states |-> EmptyDict, pending_authentications |-> EmptyDict,
     active_clients |-> EmptyDict, users |-> {}, numbers |-> <<>>,
     sessions |-> <<>>, offset |-> 0, next_client |-> 0, outbox |-> <<>>,
     store_log |-> <<>>, client_log |-> <<>>, result |-> NoResult,
     raised |-> FALSE]

\* the user of the earlier runs of the bot
EarlierUser == 100 + 1

\* the updates an earlier run of the bot has processed before it was stopped:
\* none (there was no earlier run); the user was asked for the code; the
\* user has signed in
EarlierRuns ==
    LET text(n, t) == Message(n, EarlierUser, PrivateChat(EarlierUser), t)
    IN {<<>>,
        <<text(1, TextAddNumber), text(2, PhoneA)>>,
        <<text(1, CmdStart), text(2, TextAddNumber), text(3, PhoneA),
          text(4, NoPlus)>>}

RECURSIVE RunOf(_, _)
\* the state after process_update was called for the updates, one by one
RunOf(s, updates) ==
    IF updates = <<>> THEN s
    ELSE RunOf(process_update(s, QuietEnv, Head(updates)), Tail(updates))

\* what the earlier runs have left in telegram_manager.db: CREATE TABLE IF NOT
\* EXISTS (lines 65, 77, 91) keeps the rows of a database that exists
EarlierStores ==
    {LET s == RunOf(FirstConstruction, run)
     IN [users |-> s.users, numbers |-> s.numbers, sessions |-> s.sessions] :
        run \in EarlierRuns}

\* TelegramBot(): the dicts are empty and the offset is 0 (lines 178-179,
\* 322-328), the tables hold what an earlier run has left
InitBot ==
    /\ user_states = EmptyDict
    /\ pending_authentications = EmptyDict
    /\ active_clients = EmptyDict
    /\ \E store \in EarlierStores :
          /\ users = store.users
          /\ numbers = store.numbers
          /\ sessions = store.sessions
    /\ offset = 0
    /\ next_client = 0
    /\ last_update = NoUpdate
    /\ outbox = <<>>
    /\ store_log = <<>>
    /\ client_log = <<>>
    /\ result = NoResult
    /\ error_logged = FALSE
    /\ before = [user_states |-> EmptyDict, pending_authentications |-> EmptyDict]
    /\ pc = "get_updates"
    /\ batch = <<>>
    /\ arrived = <<>>
    /\ handled = <<>>
    /\ two_factor_asked = EmptyDict
    /\ started_by = EmptyDict
    /\ tasks = <<>>

\* the state after TelegramBot() was constructed
Init ==
    /\ InitBot
    /\ name_inputs = <<>>
    /\ name_outputs = <<>>

\* line 664: one call of process_update, awaited to its end
Process(update, e) ==
    /\ \E r \in {process_update(State, e, update)} :
          /\ user_states' = r.user_states
          /\ pending_authentications' = r.pending_authentications
          /\ active_clients' = r.active_clients
          /\ users' = r.users
          /\ numbers' = r.numbers
          /\ sessions' = r.sessions
          /\ offset' = r.offset
          /\ next_client' = r.next_client
          /\ outbox' = r.outbox
          /\ store_log' = r.store_log
          /\ client_log' = r.client_log
          /\ result' = r.result
          /\ error_logged' = r.raised
    /\ last_update' = update
    /\ before' = [user_states |-> user_states,
                  pending_authentications |-> pending_authentications]

\* TelegramBot.run, lines 663-664: one update is processed to its end; the
\* loop itself is left out of this step
Deliver(update, e) ==
    /\ update.update_id <= MaxUpdateId
    /\ Process(update, e)
    /\ UNCHANGED <<loop_vars, aside_vars>>

StartCommand ==
    /\ NextUpdateId <= MaxUpdateId
    /\ \E u \in Users, t \in Texts, e \in TransportEnvs(QuietEnv, 1) :
           /\ startswith(t, CmdStart)
           /\ Deliver(Message(NextUpdateId, u, PrivateChat(u), t), e)

HelpCommand ==
    /\ NextUpdateId <= MaxUpdateId
    /\ \E u \in Users, t \in Texts, e \in TransportEnvs(QuietEnv, 1) :
           /\ ~startswith(t, CmdStart) /\ startswith(t, CmdHelp)
           /\ Deliver(Message(NextUpdateId, u, PrivateChat(u), t), e)

AddNumberButton ==
    /\ NextUpdateId <= MaxUpdateId
    /\ \E u \in Users, t \in Texts, e \in TransportEnvs(QuietEnv, 1) :
           /\ t = TextAddNumber
           /\ Deliver(Message(NextUpdateId, u, PrivateChat(u), t), e)

MyNumbersButton ==
    /\ NextUpdateId <= MaxUpdateId
    /\ \E u \in Users, t \in Texts, e \in TransportEnvs(QuietEnv, 1) :
           /\ t = TextMyNumbers
           /\ Deliver(Message(NextUpdateId, u, PrivateChat(u), t), e)

HelpButton ==
    /\ NextUpdateId <= MaxUpdateId
    /\ \E u \in Users, t \in Texts, e \in TransportEnvs(QuietEnv, 1) :
           /\ t = TextHelp
           /\ Deliver(Message(NextUpdateId, u, PrivateChat(u), t), e)

IdleText ==
    /\ NextUpdateId <= MaxUpdateId
    /\ \E u \in Users, t \in IdleTexts :
           /\ u \notin DOMAIN user_states
           /\ Deliver(Message(NextUpdateId, u, PrivateChat(u), t), QuietEnv)

BadPhoneInput ==
    /\ NextUpdateId <= MaxUpdateId
    /\ \E u \in DOMAIN user_states, t \in PlainTexts, e \in TransportEnvs(QuietEnv, 1) :
           /\ user_states[u] = "waiting_phone"
           /\ ~valid_phone_input(t)
           /\ Deliver(Message(NextUpdateId, u, PrivateChat(u), t), e)

PhoneInput ==
    /\ NextUpdateId <= MaxUpdateId
    /\ \E u \in DOMAIN user_states, t \in PlainTexts, e \in SendCodeEnvs :
           /\ user_states[u] = "waiting_phone"
           /\ valid_phone_input(t)
           /\ Len(numbers) < MaxNumbers
           /\ Deliver(Message(NextUpdateId, u, PrivateChat(u), t), e)

CodeInput ==
    /\ NextUpdateId <= MaxUpdateId
    /\ \E u \in DOMAIN user_states, t \in SecretTexts, e \in SignInEnvs(CodeOutcomes) :
           /\ user_states[u] = "waiting_code"
           /\ Deliver(Message(NextUpdateId, u, PrivateChat(u), t), e)

PasswordInput ==
    /\ NextUpdateId <= MaxUpdateId
    /\ \E u \in DOMAIN user_states, t \in SecretTexts,
          e \in SignInEnvs(PasswordOutcomes) :
           /\ user_states[u] = "waiting_2fa"
           /\ Deliver(Message(NextUpdateId, u, PrivateChat(u), t), e)

GroupMessage ==
    /\ NextUpdateId <= MaxUpdateId
    /\ \E u \in Users, t \in GroupTexts :
           /\ GroupChat.type # "private"
           /\ Deliver(Message(NextUpdateId, u, GroupChat, t), QuietEnv)

MessageWithoutText ==
    /\ NextUpdateId <= MaxUpdateId
    /\ \E u \in Users :
           /\ ~NoTextMessage(NextUpdateId, u, PrivateChat(u)).has_text
           /\ Deliver(NoTextMessage(NextUpdateId, u, PrivateChat(u)), QuietEnv)

CallbackQueryUpdate ==
    /\ NextUpdateId <= MaxUpdateId
    /\ \E u \in Users, e \in TransportEnvs(QuietEnv, 2) :
           \E d \in CallbackData(u) :
               Deliver(CallbackQuery(NextUpdateId, u, PrivateChat(u), d), e)

Next ==
    \/ StartCommand
    \/ HelpCommand
    \/ AddNumberButton
    \/ MyNumbersButton
    \/ HelpButton
    \/ IdleText
    \/ BadPhoneInput
    \/ PhoneInput
    \/ CodeInput
    \/ PasswordInput
    \/ GroupMessage
    \/ MessageWithoutText
    \/ CallbackQueryUpdate

Spec == Init /\ [][Next]_vars

----------------------------------------------------------------------------
(* The dispatch loop, TelegramBot.run, statement by statement: get_updates *)
(* returns a batch, the for loop hands its updates to process_update one   *)
(* after the other, an empty batch is followed by a sleep.                 *)

\* get_updates returns the updates 1 .. MaxLoopUpdateId
MaxLoopUpdateId == 3
\* a batch has at most this many updates
MaxBatch == 2

\* the user the updates of the loop come from
LoopSender == 100 + 1

\* the shapes of update process_update tells apart
LoopShapes == {"add_number", "phone", "group_message", "group_callback"}

LoopUpdate(shape, update_id) ==
    CASE shape = "add_number" ->
            Message(update_id, LoopSender, PrivateChat(LoopSender), TextAddNumber)
      [] shape = "phone" ->
            Message(update_id, LoopSender, PrivateChat(LoopSender), PhoneA)
      [] shape = "group_message" ->
            Message(update_id, LoopSender, GroupChat, TextAddNumber)
      [] shape = "group_callback" ->
            CallbackQuery(update_id, LoopSender, GroupChat,
                          [name |-> "back_main", number_id |-> 0])

\* what may happen during a call: nothing, the first transport request
\* raises, the provider raises
LoopEnvs == {QuietEnv,
             [QuietEnv EXCEPT !.transport_fail = 1],
             [QuietEnv EXCEPT !.send_code_request = "Exception"]}

\* the batches getUpdates may answer with: the next n updates, ids ascending
Batches ==
    UNION {{[i \in 1 .. n |-> LoopUpdate(shapes[i], NextUpdateId + i - 1)] :
               shapes \in [1 .. n -> LoopShapes]} :
           n \in {m \in 1 .. MaxBatch : NextUpdateId + m - 1 <= MaxLoopUpdateId}}

\* the number of the batch get_updates returns next
NextPoll == IF arrived = <<>> THEN 1 ELSE arrived[Len(arrived)].poll + 1

\* as except_Exception_catches, had the clause named one exception type
\* (`except KeyError`), which a failed transport request does not raise
except_KeyError_catches == FALSE

\* lines 650-651: `except Exception` catches what a handler, the store, the
\* provider or the transport raises
except_Exception_catches == TRUE

\* lines 660, 612-617: get_updates returns a batch that is not empty
GetUpdatesReturns ==
    /\ pc = "get_updates"
    /\ \E updates \in Batches :
          /\ batch' = updates
          /\ arrived' = arrived \o [i \in DOMAIN updates |->
                                       [update_id |-> updates[i].update_id,
                                        poll |-> NextPoll]]
    /\ pc' = "for_update"
    /\ UNCHANGED <<bot_vars, handled, aside_vars>>

\* lines 660, 618-623: there is no update, or the answer is not ok, or the
\* request raises: get_updates returns []
GetUpdatesEmpty ==
    /\ pc = "get_updates"
    /\ batch' = <<>>
    /\ pc' = "sleep"
    /\ UNCHANGED <<bot_vars, arrived, handled, aside_vars>>

\* lines 666-667
Sleep ==
    /\ pc = "sleep"
    /\ pc' = "get_updates"
    /\ UNCHANGED <<bot_vars, batch, arrived, handled, aside_vars>>

\* lines 663-664: the for loop takes the next update of the batch; what
\* process_update does not catch ends the loop (lines 669-672)
ForUpdate ==
    /\ pc = "for_update"
    /\ \E e \in LoopEnvs : Process(Head(batch), e)
    /\ handled' = Append(handled, [update_id |-> Head(batch).update_id,
                                    error |-> error_logged'])
    /\ batch' = Tail(batch)
    /\ pc' = IF error_logged' /\ ~except_Exception_catches THEN "crashed"
             ELSE IF Tail(batch) = <<>> THEN "get_updates"
             ELSE "for_update"
    /\ UNCHANGED <<arrived, aside_vars>>

LoopNext ==
    \/ GetUpdatesReturns
    \/ GetUpdatesEmpty
    \/ Sleep
    \/ ForUpdate

LoopSpec == Init /\ [][LoopNext]_vars

\* the for loop goes on once the awaited call has returned
LoopSpecFair == LoopSpec /\ WF_vars(ForUpdate)

----------------------------------------------------------------------------
(* The sign-in conversations at greater length: the updates of the flow    *)
(* (menu label, phone number, code, password) and the other commands, with *)
(* the provider's answers and a reply that cannot be sent.                 *)

\* the updates of the flows carry the ids 1 .. MaxFlowUpdateId
MaxFlowUpdateId == 6
\* how many distinct users hold conversations side by side
NumFlowUsers == 2

FlowUsers == (100 + 1) .. (100 + NumFlowUsers)

\* a code is sent, also for a row inserted in the second of the row before;
\* the reply cannot be sent; the session is authorized; the provider raises
FlowSendCodeEnvs ==
    {QuietEnv,
     [QuietEnv EXCEPT !.same_second = TRUE],
     [QuietEnv EXCEPT !.transport_fail = 2],
     [QuietEnv EXCEPT !.is_user_authorized = TRUE],
     [QuietEnv EXCEPT !.send_code_request = "Exception"]}

FlowCodeEnvs ==
    {[QuietEnv EXCEPT !.sign_in = r] :
        r \in {"ok", "SessionPasswordNeededError", "PhoneCodeInvalidError"}}
    \cup {[QuietEnv EXCEPT !.sign_in = r, !.transport_fail = 1] :
        r \in {"ok", "SessionPasswordNeededError"}}

FlowPasswordEnvs ==
    {[QuietEnv EXCEPT !.sign_in = r, !.transport_fail = k] :
        r \in {"ok", "PasswordHashInvalidError"}, k \in {0, 1}}

\* one call of process_update; the entry a code sign-in answered with
\* SessionPasswordNeededError for (lines 261-262) is recorded, and so is the
\* row add_phone_number inserted (line 503) when send_code stored an entry
\* (lines 202-207)
FlowDeliver(update, e) ==
    /\ update.update_id <= MaxFlowUpdateId
    /\ Process(update, e)
    /\ two_factor_asked' =
          IF result'.call = "verify_code" /\ result'.message_text = <<"2FA_REQUIRED">>
          THEN DictSet(two_factor_asked, update.from,
                       pending_authentications[update.from])
          ELSE two_factor_asked
    /\ started_by' =
          IF /\ result'.call = "send_code" /\ result'.success
             /\ result'.message_text # <<"Already authenticated">>
          THEN DictSet(started_by, update.from, Len(numbers'))
          ELSE started_by
    /\ UNCHANGED <<loop_vars, tasks, name_inputs, name_outputs>>

FlowAddNumber ==
    \E u \in FlowUsers :
        /\ TextAddNumber \in Texts
        /\ FlowDeliver(Message(NextUpdateId, u, PrivateChat(u), TextAddNumber),
                       QuietEnv)

FlowOtherCommand ==
    \E u \in FlowUsers, t \in {CmdHelp, TextMyNumbers} :
        /\ t \in Texts
        /\ FlowDeliver(Message(NextUpdateId, u, PrivateChat(u), t), QuietEnv)

FlowPhone ==
    \E u \in DOMAIN user_states, t \in {PhoneA, PhoneB}, e \in FlowSendCodeEnvs :
        /\ user_states[u] = "waiting_phone"
        /\ Len(numbers) < MaxNumbers
        /\ FlowDeliver(Message(NextUpdateId, u, PrivateChat(u), t), e)

FlowCode ==
    \E u \in DOMAIN user_states, t \in SecretTexts, e \in FlowCodeEnvs :
        /\ user_states[u] = "waiting_code"
        /\ FlowDeliver(Message(NextUpdateId, u, PrivateChat(u), t), e)

FlowPassword ==
    \E u \in DOMAIN user_states, t \in SecretTexts, e \in FlowPasswordEnvs :
        /\ user_states[u] = "waiting_2fa"
        /\ FlowDeliver(Message(NextUpdateId, u, PrivateChat(u), t), e)

FlowNext ==
    \/ FlowAddNumber
    \/ FlowOtherCommand
    \/ FlowPhone
    \/ FlowCode
    \/ FlowPassword

FlowSpec == Init /\ [][FlowNext]_vars

----------------------------------------------------------------------------
(* The handlers of text messages, await by await.  A call of               *)
(* process_update is a coroutine (a task): it runs to its next await of    *)
(* the account client or of the transport, is suspended there, and is      *)
(* resumed with what the environment answers.  What a task has read into   *)
(* its local variables stays with the task.                                *)

\* the updates of the tasks carry the ids 1 .. MaxTaskUpdateId
MaxTaskUpdateId == 5

\* the awaits a task is suspended at: the notice of line 506, the calls on
\* the account client (lines 193, 195, 196, 199 and 231, 280), the reply of
\* the handler
SuspensionPoints == {"send_notice", "connect", "is_user_authorized",
                     "disconnect", "send_code_request", "sign_in", "send_reply"}

NoEntry == [client |-> 0, phone_number |-> <<>>,
            phone_code_hash |-> [issued_to |-> 0],
            session_name |-> [prefix |-> "", md5 |-> <<>>]]

\* the fields of the program state (not what is recorded of the last call)
Program(s) == [user_states |-> s.user_states,
               pending_authentications |-> s.pending_authentications,
               active_clients |-> s.active_clients,
               users |-> s.users,
               numbers |-> s.numbers,
               sessions |-> s.sessions,
               offset |-> s.offset,
               next_client |-> s.next_client]

\* the task of process_update(update) from its call to its first await.
\*   state_read: `state`, line 491;  auth_read: `auth_data`, lines 225, 276
\*   client: `client`, line 192 (0: not constructed)
\*   sent: the transport requests it has made;  then_del: a
\*   `del self.user_states[user_id]` follows the reply it awaits
\*   write_due: a write to user_states or pending_authentications that
\*   depends on what it has read is still ahead of it
TaskBegin(s, e, update) ==
    LET user_id == update.from
        text == update.text
        s0 == [s EXCEPT !.offset = update.update_id + 1]
        present == user_id \in DOMAIN s.user_states
        state == IF present THEN s.user_states[user_id] ELSE "none"
        has_entry == user_id \in DOMAIN s.pending_authentications
        t0 == [update |-> update, e |-> e, at |-> "done", sent |-> 0,
               state_read |-> "none", auth_read |-> NoEntry, client |-> 0,
               then_del |-> FALSE, write_due |-> FALSE,
               expect |-> Program(process_update(s, e, update))]
        reply == [t0 EXCEPT !.at = "send_reply", !.sent = 1, !.state_read = state]
    IN IF text = TextAddNumber THEN
            \* line 464, then the await of line 465
            [s |-> [s0 EXCEPT !.user_states = DictSet(@, user_id, "waiting_phone")],
             t |-> [reply EXCEPT !.state_read = "none"]]
       ELSE IF ~present THEN [s |-> s0, t |-> t0]
       ELSE IF state = "waiting_phone" THEN
            IF ~valid_phone_input(text)
            THEN [s |-> s0, t |-> reply]
            ELSE \* line 503, then the await of line 506
                 [s |-> add_phone_number(s0, e, user_id, text),
                  t |-> [reply EXCEPT !.at = "send_notice", !.write_due = TRUE]]
       ELSE IF ~has_entry THEN
            \* lines 222-223, 273-274: no await before the reply
            [s |-> s0,
             t |-> [reply EXCEPT !.then_del = (state = "waiting_2fa"),
                                 !.write_due = (state = "waiting_2fa")]]
       ELSE \* lines 225-231, 276-280: the entry is read, sign_in is awaited
            [s |-> s0,
             t |-> [t0 EXCEPT !.at = "sign_in", !.state_read = state,
                              !.auth_read = s.pending_authentications[user_id],
                              !.write_due = TRUE]]

\* the task awaits the reply of its handler next
AwaitReply(t, then_del) ==
    [t EXCEPT !.at = "send_reply", !.sent = @ + 1,
              !.then_del = then_del, !.write_due = then_del]

\* lines 237-249, 283-295 with the task's local variables: the entry it read
\* before the await is the one that is saved, and the user's key is deleted
\* (when the key is gone `del` raises KeyError and nothing is deleted)
TaskSignedIn(s, t) ==
    LET user_id == t.update.from
        auth_data == t.auth_read
        phone_number == auth_data.phone_number
        s1 == save_session(s, user_id, phone_number, auth_data.session_name)
        s2 == update_number_status(s1, get_number_id(s1, user_id, phone_number),
                                   "authenticated", TRUE)
    IN [s2 EXCEPT !.active_clients =
                      DictSet(@, ClientKey(user_id, phone_number), auth_data.client),
                  !.pending_authentications = DictDel(@, user_id)]

\* lines 202-207 with the task's local variables
TaskAuthData(t) ==
    [client |-> t.client,
     phone_number |-> t.update.text,
     phone_code_hash |-> [issued_to |-> t.client],
     session_name |-> get_session_name(t.update.from, t.update.text)]

\* a suspended task is resumed and runs to its next await or to its end
TaskResume(s, t) ==
    LET user_id == t.update.from
        text == t.update.text
        e == t.e
        raises == e.transport_fail = t.sent
        done == [t EXCEPT !.at = "done", !.write_due = FALSE]
    IN IF t.at = "send_notice" THEN
            \* line 506 returns or raises; lines 508, 189-193: send_code
            \* constructs its client and awaits connect
            IF raises THEN [s |-> s, t |-> done]
            ELSE [s |-> [s EXCEPT !.next_client = @ + 1],
                  t |-> [t EXCEPT !.at = "connect",
                                  !.client = s.next_client + 1]]
       ELSE IF t.at = "connect" THEN
            \* line 193 raises (lines 216-218, then the reply of line 526) or
            \* returns (line 195)
            IF e.connect # "ok" THEN [s |-> s, t |-> AwaitReply(t, TRUE)]
            ELSE [s |-> s, t |-> [t EXCEPT !.at = "is_user_authorized"]]
       ELSE IF t.at = "is_user_authorized" THEN
            \* line 195 answers: line 196 or line 199 is awaited next
            [s |-> s,
             t |-> [t EXCEPT !.at = IF e.is_user_authorized THEN "disconnect"
                                    ELSE "send_code_request"]]
       ELSE IF t.at = "disconnect" THEN
            \* line 197 or lines 216-218: the reply of line 512 or of line
            \* 526, and the del of line 517 or 531 after it
            [s |-> s, t |-> AwaitReply(t, TRUE)]
       ELSE IF t.at = "send_code_request" THEN
            IF e.send_code_request = "ok" THEN
                \* lines 202-210, 519-520
                [s |-> [store_pending_authentication(s, user_id, TaskAuthData(t))
                           EXCEPT !.user_states =
                                      DictSet(@, user_id, "waiting_code")],
                 t |-> AwaitReply(t, FALSE)]
            ELSE \* lines 212-218, then the reply of line 526
                [s |-> s, t |-> AwaitReply(t, TRUE)]
       ELSE IF t.at = "sign_in" THEN
            IF e.sign_in = "ok" THEN
                \* lines 237-258, 283-297, then the reply of line 537 or 556;
                \* when the user's key is gone, line 249 or 295 raises
                \* KeyError, which lines 267-269, 302-304 turn into a failure:
                \* the reply of line 551 (no del follows) or of line 556
                [s |-> TaskSignedIn(s, t),
                 t |-> AwaitReply(t, \/ user_id \in DOMAIN s.pending_authentications
                                     \/ t.state_read = "waiting_2fa")]
            ELSE IF t.state_read = "waiting_2fa" THEN
                \* lines 300-304, then the reply of line 556
                [s |-> s, t |-> AwaitReply(t, TRUE)]
            ELSE IF e.sign_in = "SessionPasswordNeededError" THEN
                \* lines 261-262, 543-545
                [s |-> [s EXCEPT !.user_states =
                                     DictSet(@, user_id, "waiting_2fa")],
                 t |-> AwaitReply(t, FALSE)]
            ELSE \* lines 263-269, 550-551
                [s |-> s, t |-> AwaitReply(t, FALSE)]
       ELSE \* the reply returns or raises; lines 517, 531, 542, 561
            IF raises \/ ~t.then_del THEN [s |-> s, t |-> done]
            ELSE [s |-> [s EXCEPT !.user_states = DictDel(@, user_id)],
                  t |-> done]

\* as run_awaits_process_update, had run started the call without waiting
\* for it (asyncio.create_task(self.process_update(update)))
run_creates_task == FALSE

\* line 664: `await self.process_update(update)`
run_awaits_process_update == TRUE

\* the program state becomes s; what is recorded of the last call is not kept
TaskCommit(s) ==
    /\ user_states' = s.user_states
    /\ pending_authentications' = s.pending_authentications
    /\ active_clients' = s.active_clients
    /\ users' = s.users
    /\ numbers' = s.numbers
    /\ sessions' = s.sessions
    /\ offset' = s.offset
    /\ next_client' = s.next_client
    /\ UNCHANGED <<last_update, outbox, store_log, client_log, result,
                   error_logged, before>>

\* what may happen during the call of a user in the given state
TaskEnvs(state) ==
    CASE state = "waiting_phone" ->
            FlowSendCodeEnvs \cup {[QuietEnv EXCEPT !.transport_fail = 1]}
      [] state = "waiting_code" -> FlowCodeEnvs
      [] state = "waiting_2fa" -> FlowPasswordEnvs
      [] OTHER -> {QuietEnv}

\* lines 660-664: the loop has an update and calls process_update
TaskStart ==
    /\ pc = "get_updates"
    /\ NextUpdateId <= MaxTaskUpdateId
    /\ \E u \in FlowUsers, text \in {TextAddNumber, PhoneA, NoPlus} :
         \E e \in IF text = TextAddNumber THEN TransportEnvs(QuietEnv, 1)
                   ELSE TaskEnvs(IF u \in DOMAIN user_states
                                 THEN user_states[u] ELSE "none") :
            LET r == TaskBegin(State, e,
                               Message(NextUpdateId, u, PrivateChat(u), text))
            IN /\ TaskCommit(r.s)
               /\ tasks' = Append(tasks, r.t)
    /\ pc' = IF run_awaits_process_update THEN "await_process_update"
             ELSE "get_updates"
    /\ UNCHANGED <<batch, arrived, handled, two_factor_asked, started_by,
                   name_inputs, name_outputs>>

\* what a task awaits has answered
TaskStep ==
    /\ \E i \in DOMAIN tasks :
          /\ tasks[i].at \in SuspensionPoints
          /\ LET r == TaskResume(State, tasks[i])
             IN /\ TaskCommit(r.s)
                /\ tasks' = [tasks EXCEPT ![i] = r.t]
    /\ UNCHANGED <<loop_vars, two_factor_asked, started_by, name_inputs,
                   name_outputs>>

\* process_update has returned; the loop goes on
TaskReturns ==
    /\ \E i \in DOMAIN tasks :
          /\ tasks[i].at = "done"
          /\ tasks' = SubSeq(tasks, 1, i - 1) \o SubSeq(tasks, i + 1, Len(tasks))
    /\ pc' = "get_updates"
    /\ UNCHANGED <<bot_vars, batch, arrived, handled, two_factor_asked,
                   started_by, name_inputs, name_outputs>>

TaskNext ==
    \/ TaskStart
    \/ TaskStep
    \/ TaskReturns

TaskSpec == Init /\ [][TaskNext]_vars

----------------------------------------------------------------------------
(* get_session_name, called on its own with arguments of bounded sets.     *)

\* the user ids 0 .. MaxUserId
MaxUserId == 11
\* phone number arguments have at most this many characters
MaxPhoneLen == 2

\* the characters of the phone number arguments: a sign, a digit, and the
\* character the key is joined with
PhoneChars == {"+", "1", "_"}

RECURSIVE Strings(_)
\* the strings of at most n characters
Strings(n) == IF n = 0 THEN {<<>>}
              ELSE Strings(n - 1) \cup
                   {Append(t, c) : t \in Strings(n - 1), c \in PhoneChars}

NameArguments == [user_id : 0 .. MaxUserId, phone_number : Strings(MaxPhoneLen)]

\* the calls are compared two by two
NameCalls == 1 + 1

NameInit ==
    /\ InitBot
    /\ name_inputs \in [1 .. NameCalls -> NameArguments]
    /\ name_outputs = <<>>

\* one call of get_session_name, with the next arguments
GetSessionName ==
    /\ Len(name_outputs) < Len(name_inputs)
    /\ LET arguments == name_inputs[Len(name_outputs) + 1]
       IN name_outputs' = Append(name_outputs,
                                 get_session_name(arguments.user_id,
                                                  arguments.phone_number))
    /\ UNCHANGED <<bot_vars, loop_vars, two_factor_asked, started_by, tasks,
                   name_inputs>>

NameSpec == NameInit /\ [][GetSessionName]_vars

----------------------------------------------------------------------------
(* What the last call of process_update did, read from the logs. *)

Sender == last_update.from

StoreCalls(op) == SelectSeq(store_log, LAMBDA call : call.op = op)
NoStoreWrite == \A i \in DOMAIN store_log : store_log[i].op \notin StoreWrites
ClientOps == {client_log[i].op : i \in DOMAIN client_log}

SignInCalls == {"verify_code", "verify_2fa_password"}
SignInSucceeded == result.call \in SignInCalls /\ result.success
NoPendingText == <<"No pending authentication found">>

\* the last update was a text message in a private chat
PrivateText == /\ last_update.kind = "message"
               /\ last_update.has_text
               /\ last_update.chat.type = "private"

\* the dicts at the beginning of the last call
HadPending(u) == u \in DOMAIN before.pending_authentications
StateBefore(u) == IF u \in DOMAIN before.user_states
                  THEN before.user_states[u] ELSE "idle"
StateNow(u) == IF u \in DOMAIN user_states THEN user_states[u] ELSE "idle"
PendingUnchanged == pending_authentications = before.pending_authentications

----------------------------------------------------------------------------
(* The claims. *)

\* C1: when a sign-in succeeds (verify_code or verify_2fa_password), the call
\* makes exactly one save_session, for the user and the phone number and
\* session name of the pending entry, and exactly one update_number_status,
\* with status 'authenticated' and is_authenticated true; when it returns the
\* user has no pending entry.
C1_SignInSuccessPersistsOnce ==
    SignInSucceeded =>
        /\ HadPending(Sender)
        /\ StoreCalls("save_session") =
              <<[op |-> "save_session", user_id |-> Sender,
                 phone_number |->
                     before.pending_authentications[Sender].phone_number,
                 session_file_path |->
                     before.pending_authentications[Sender].session_name]>>
        /\ Len(StoreCalls("update_number_status")) = 1
        /\ StoreCalls("update_number_status")[1].status = "authenticated"
        /\ StoreCalls("update_number_status")[1].is_authenticated
        /\ Sender \notin DOMAIN pending_authentications

\* a code sign-in has succeeded and its entry is gone
C1_Witness ==
    /\ result.call = "verify_code" /\ result.success
    /\ HadPending(Sender)
    /\ Len(sessions) = 1

\* C2: for a user with no pending entry, verify_code and verify_2fa_password
\* return the failure 'No pending authentication found', call no account
\* client, write nothing to the store and leave the registry as it was.
C2_NoPendingTouchesNothing ==
    (result.call \in SignInCalls /\ ~HadPending(Sender)) =>
        /\ ~result.success
        /\ result.message_text = NoPendingText
        /\ client_log = <<>>
        /\ NoStoreWrite
        /\ PendingUnchanged

\* a password arrived for a user whose entry was already gone: the password
\* sign-in before it succeeded and its reply could not be sent
C2_Witness ==
    /\ result.call = "verify_2fa_password"
    /\ ~HadPending(Sender)
    /\ StateBefore(Sender) = "waiting_2fa"
    /\ ~result.success
    /\ result.message_text = NoPendingText

\* the calls of the login handshake
HandshakeOps == {"connect", "is_user_authorized", "send_code_request",
                 "sign_in_code", "sign_in_password", "disconnect"}

\* C3: every call made on an account client is a call of the login handshake;
\* in particular a successful code sign-in is followed by no send_message and
\* no JoinChannelRequest on the signed-in client.
C3_OnlyHandshakeCalls ==
    /\ ClientOps \subseteq HandshakeOps
    /\ (result.call = "verify_code" /\ result.success) =>
            client_log = <<[client |-> before.pending_authentications[Sender].client,
                            op |-> "sign_in_code"]>>

\* a code sign-in has succeeded, so the embedded source text was handed to compile()
C3_Witness ==
    /\ result.call = "verify_code" /\ result.success
    /\ Len(client_log) = 1
    /\ Sender \in Users

\* C4: when verify_2fa_password fails for a user who has a pending entry
\* (wrong password or any other provider error), the entry is removed: after
\* the failure the user has no pending entry.
C4_FailedPasswordRemovesEntry ==
    (result.call = "verify_2fa_password" /\ ~result.success /\ HadPending(Sender))
        => Sender \notin DOMAIN pending_authentications

TwoFactorRequired ==
    result.call = "verify_code" /\ result.message_text = <<"2FA_REQUIRED">>

\* C5: when the provider answers a code submitted in waiting_code with
\* "second factor required", the pending entries are exactly as before (same
\* client, phone number, phone_code_hash, session name), nothing is written to
\* the store, and the user's state becomes waiting_2fa.
C5_TwoFactorKeepsEntry ==
    TwoFactorRequired =>
        /\ StateBefore(Sender) = "waiting_code"
        /\ HadPending(Sender)
        /\ PendingUnchanged
        /\ NoStoreWrite
        /\ StateNow(Sender) = "waiting_2fa"

\* the provider asked for the second factor and the prompt could not be sent
C5_Witness ==
    /\ TwoFactorRequired
    /\ error_logged
    /\ StateNow(Sender) = "waiting_2fa"

\* a phone number was accepted as input in the last call
PhoneSubmitted == StoreCalls("add_phone_number") # <<>>
CodeSent == /\ result.call = "send_code" /\ result.success
            /\ result.message_text # <<"Already authenticated">>
AlreadyAuthenticated == /\ result.call = "send_code" /\ result.success
                        /\ result.message_text = <<"Already authenticated">>

\* C6 as claimed: after a phone submission by a user who has a pending entry,
\* the user's entry carries the submitted phone number and a new client and
\* phone_code_hash.
C6_SecondSubmissionReplaces ==
    (PhoneSubmitted /\ HadPending(Sender)) =>
        /\ Sender \in DOMAIN pending_authentications
        /\ pending_authentications[Sender].phone_number = last_update.text
        /\ pending_authentications[Sender].client
              # before.pending_authentications[Sender].client
        /\ pending_authentications[Sender].phone_code_hash
              # before.pending_authentications[Sender].phone_code_hash

\* C6 as amended: the registry holds entries of users only, each with the
\* session name of its user and phone number; and a phone submission whose
\* code request obtains a code leaves the user with the entry of this request
\* (the submitted phone number, the client constructed for it and its
\* phone_code_hash), whatever entry the user had before, and leaves the
\* entries of the other users as they were.
C6_CodeSentReplacesEntry ==
    /\ DOMAIN pending_authentications \subseteq FlowUsers
    /\ \A u \in DOMAIN pending_authentications :
          pending_authentications[u].session_name
              = get_session_name(u, pending_authentications[u].phone_number)
    /\ CodeSent =>
          /\ Sender \in DOMAIN pending_authentications
          /\ pending_authentications[Sender] =
                [client |-> next_client,
                 phone_number |-> last_update.text,
                 phone_code_hash |-> [issued_to |-> next_client],
                 session_name |-> get_session_name(Sender, last_update.text)]
          /\ HadPending(Sender) =>
                /\ before.pending_authentications[Sender].client # next_client
                /\ before.pending_authentications[Sender].phone_code_hash
                      # [issued_to |-> next_client]
          /\ \A u \in FlowUsers \ {Sender} :
                /\ HadPending(u) <=> u \in DOMAIN pending_authentications
                /\ HadPending(u) => pending_authentications[u]
                                      = before.pending_authentications[u]

\* a second code request succeeded for a user who had an entry for another number
C6_Witness ==
    /\ CodeSent
    /\ HadPending(Sender)
    /\ before.pending_authentications[Sender].phone_number # last_update.text
    /\ pending_authentications[Sender].phone_number = last_update.text

\* what the claims call a valid phone number: a leading '+' and at least ten
\* characters
LooksLikePhone(text) ==
    /\ Len(text) >= MinPhoneLen
    /\ text[1] = "+"

\* C7: a user in waiting_phone sends a valid phone number: a phone record is
\* inserted and send_code is called; when a code was sent the state is
\* waiting_code and the user has an entry for that number; when send_code
\* failed the state is idle; when the session was already authorized the state
\* is idle and no entry was created.
C7_ValidPhoneOutcomes ==
    (PrivateText /\ StateBefore(Sender) = "waiting_phone"
        /\ LooksLikePhone(last_update.text)) =>
        /\ Len(StoreCalls("add_phone_number")) = 1
        /\ result.call = "send_code"
        /\ CodeSent =>
              /\ StateNow(Sender) = "waiting_code"
              /\ Sender \in DOMAIN pending_authentications
              /\ pending_authentications[Sender].phone_number = last_update.text
        /\ ~result.success => StateNow(Sender) = "idle"
        /\ AlreadyAuthenticated =>
              /\ StateNow(Sender) = "idle"
              /\ PendingUnchanged

\* the last update was a text in a private chat from a user in waiting_phone
\* that is no valid phone number
BadPhoneCase ==
    /\ PrivateText
    /\ StateBefore(Sender) = "waiting_phone"
    /\ ~LooksLikePhone(last_update.text)

\* the state stays waiting_phone, no phone record is inserted, no code asked for
BadPhoneFrame ==
    /\ StateNow(Sender) = "waiting_phone"
    /\ StoreCalls("add_phone_number") = <<>>
    /\ result.call = "none"
    /\ client_log = <<>>
    /\ PendingUnchanged

\* C8 as claimed: every text that is no valid phone number, sent in
\* waiting_phone, leaves the state waiting_phone, is answered with the
\* validation message, inserts no phone record and requests no code.
C8_BadPhoneGetsValidationMessage ==
    BadPhoneCase =>
        /\ BadPhoneFrame
        /\ Len(outbox) = 1
        /\ outbox[1].text = BadPhoneText

\* what a text that is routed before the conversation state is answered with
RoutedReply(text) ==
    IF startswith(text, CmdStart) THEN WelcomeText
    ELSE IF startswith(text, CmdHelp) THEN HelpText
    ELSE IF text = TextAddNumber THEN AskPhoneText
    ELSE IF text = TextMyNumbers THEN NumbersText
    ELSE IF text = TextHelp THEN HelpText
    ELSE BadPhoneText

\* C8 as amended: such a text leaves the state waiting_phone, inserts no phone
\* record and requests no code; it is answered with the validation message
\* unless it starts with /start or /help or is one of the three menu labels,
\* and then with the reply of that command.
C8_BadPhoneStaysInWaitingPhone ==
    BadPhoneCase =>
        /\ BadPhoneFrame
        /\ Len(outbox) = 1
        /\ outbox[1].op = "sendMessage"
        /\ outbox[1].chat_id = last_update.chat.id
        /\ outbox[1].text = RoutedReply(last_update.text)

\* a '+' followed by eight digits was sent in waiting_phone and rejected
C8_Witness ==
    /\ BadPhoneCase
    /\ last_update.text = ShortPlus
    /\ outbox[1].text = BadPhoneText
    /\ StateNow(Sender) = "waiting_phone"

CodeRejected ==
    /\ result.call = "verify_code"
    /\ result.message_text \in {<<"Invalid verification code">>,
                                <<"Verification code expired">>}

\* C9: when a code submitted in waiting_code is rejected as invalid or
\* expired, the state stays waiting_code, the pending entries are as before
\* and nothing is written to the store; a code the provider accepts, submitted
\* next, signs in with the same entry.
C9_RejectedCodeCanBeRetried ==
    CodeRejected =>
        /\ StateBefore(Sender) = "waiting_code"
        /\ StateNow(Sender) = "waiting_code"
        /\ HadPending(Sender)
        /\ PendingUnchanged
        /\ NoStoreWrite
        /\ verify_code(State, QuietEnv, Sender, NoPlus).result.success
        /\ verify_code(State, QuietEnv, Sender, NoPlus).sessions
              = Append(sessions,
                       [id |-> Len(sessions) + 1, user_id |-> Sender,
                        phone_number |->
                            before.pending_authentications[Sender].phone_number,
                        session_file_path |->
                            before.pending_authentications[Sender].session_name,
                        is_active |-> TRUE])

\* a code was rejected and the user is still asked for it
C9_Witness ==
    /\ CodeRejected
    /\ StateNow(Sender) = "waiting_code"
    /\ Sender \in DOMAIN pending_authentications

\* C10: the next text of a user in waiting_2fa is passed to
\* verify_2fa_password and afterwards the user has no conversation state,
\* whether the sign-in succeeded or failed; when it failed nothing was written
\* to the store.
C10_PasswordInputEndsFlow ==
    (PrivateText /\ StateBefore(Sender) = "waiting_2fa"
        /\ ~IsCommand(last_update.text) /\ ~IsMenu(last_update.text)) =>
        /\ result.call = "verify_2fa_password"
        /\ StateNow(Sender) = "idle"
        /\ ~result.success => NoStoreWrite

\* the account manager returned the failure of its `except Exception` clause
UnexpectedFailure ==
    /\ result.call \in {"send_code", "verify_code", "verify_2fa_password"}
    /\ ~result.success
    /\ Len(result.message_text) = Len(ErrorText(QuietEnv))
    /\ result.message_text[1] = ErrorText(QuietEnv)[1]

\* C11: when the code request, the code sign-in or the password sign-in ends
\* in an unexpected provider failure, the user has no conversation state after
\* the update was processed.  Stated for the calls in which nothing raised
\* (every transport request was delivered), so that a violation does not rest
\* on a reply that could not be sent.
C11_UnexpectedFailureAbortsToIdle ==
    (UnexpectedFailure /\ ~error_logged) => StateNow(Sender) = "idle"

\* the provider raises an unexpected error at the step the user is in
ProviderErrorEnvs ==
    {[QuietEnv EXCEPT !.connect = "error"],
     [QuietEnv EXCEPT !.send_code_request = "Exception"],
     [QuietEnv EXCEPT !.sign_in = "Exception"]}

\* what a call of process_update sends for the next text of user u
Replies(u, text, e) ==
    LET r == process_update(State, e, Message(NextUpdateId, u, PrivateChat(u), text))
    IN [i \in DOMAIN r.outbox |-> r.outbox[i].text]

\* C12: two calls that differ only in the detail text of the provider's error
\* send the same replies: from every reachable state, for every user in a
\* conversation and every unexpected provider failure, the texts sent do not
\* depend on the detail.
C12_RepliesIndependentOfDetail ==
    \A u \in DOMAIN user_states, text \in {PhoneA, NoPlus}, e \in ProviderErrorEnvs :
        \A d1, d2 \in Details :
            Replies(u, text, [e EXCEPT !.detail = d1])
                = Replies(u, text, [e EXCEPT !.detail = d2])

\* the ids of a sequence of updates or of records of updates
UpdateIds(seq) == [i \in DOMAIN seq |-> seq[i].update_id]

\* the loop runs, the calls made so far are the first updates that arrived,
\* in their order, the for loop has the others left, and it is at the for
\* statement exactly while it has updates left
InArrivalOrder ==
    /\ pc \in {"get_updates", "for_update", "sleep"}
    /\ UpdateIds(handled) \o UpdateIds(batch) = UpdateIds(arrived)
    /\ pc = "for_update" <=> batch # <<>>

\* C13: the updates of every batch are handed to process_update one at a
\* time in the order in which they arrived, an error in one call (in a
\* handler, the provider or the transport) does not end the loop, and every
\* update that arrived is processed in the end: whenever updates of a batch
\* are left, there comes a state in which all that arrived have been processed.
C13_LoopKeepsRunning ==
    /\ []InArrivalOrder
    /\ (batch # <<>>) ~> (UpdateIds(handled) = UpdateIds(arrived))

\* an update was processed after the call for the update before it, of the
\* same batch, ended in an error
C13_Witness ==
    \E i \in DOMAIN handled :
        /\ i > 1
        /\ handled[i - 1].error
        /\ arrived[i - 1].poll = arrived[i].poll
        /\ pc = "get_updates"

\* C15: an update from a chat that is not private, a message or a callback
\* query, is dropped: the call makes no transport request, does not access
\* the store and leaves user_states and pending_authentications as they were.
C15_NonPrivateUpdateIsDropped ==
    (handled # <<>> /\ last_update.chat.type # "private") =>
        /\ outbox = <<>>
        /\ store_log = <<>>
        /\ user_states = before.user_states
        /\ PendingUnchanged

\* C17: every phone record and every session row belongs to a user id that
\* has a row in the users table.
C17_RecordsBelongToUsers ==
    /\ \A i \in DOMAIN numbers : numbers[i].user_id \in users
    /\ \A i \in DOMAIN sessions : sessions[i].user_id \in users

\* C19: between two updates, a user whose state is waiting_code or
\* waiting_2fa has a pending entry.
C19_ExpectedInputHasEntry ==
    \A u \in DOMAIN user_states :
        user_states[u] \in {"waiting_code", "waiting_2fa"}
            => u \in DOMAIN pending_authentications

\* C18: get_session_name returns the same name for the same pair of user id
\* and phone number, and different names for different pairs: the key the
\* digest is taken of determines the pair.
C18_SessionNameDeterminesPair ==
    Len(name_outputs) = NameCalls =>
        \A i, j \in 1 .. NameCalls :
            name_outputs[i] = name_outputs[j] <=> name_inputs[i] = name_inputs[j]

\* the function was called for user 1 with a phone number beginning with 1 and
\* for user 11 with the rest of that number
C18_Witness ==
    /\ Len(name_outputs) = NameCalls
    /\ name_inputs[1] = [user_id |-> 1, phone_number |-> <<"1", "+">>]
    /\ name_inputs[2] = [user_id |-> 11, phone_number |-> <<"+">>]
    /\ name_outputs[1] # name_outputs[2]

\* C14: the sessions table has at most one active row for a pair of user id
\* and phone number.
C14_OneSessionPerPair ==
    \A i, j \in DOMAIN sessions :
        (/\ sessions[i].user_id = sessions[j].user_id
         /\ sessions[i].phone_number = sessions[j].phone_number
         /\ sessions[i].is_active /\ sessions[j].is_active) => i = j

\* the last call passed a password to an account client
PasswordCalls == {i \in DOMAIN client_log : client_log[i].op = "sign_in_password"}

\* C20: the entry of a user in waiting_2fa is the entry whose code sign-in
\* last asked for the second factor (same client, phone number and session),
\* and every password is passed to the client of that entry: no menu command
\* or phone submission, of this user or another, leads a password to the
\* client of another phone number or to one that did not ask for it.
C20_PasswordReachesAskedEntry ==
    /\ \A u \in DOMAIN user_states :
          (user_states[u] = "waiting_2fa" /\ u \in DOMAIN pending_authentications)
            => /\ u \in DOMAIN two_factor_asked
               /\ pending_authentications[u] = two_factor_asked[u]
    /\ \A i \in PasswordCalls :
          /\ StateBefore(Sender) = "waiting_2fa"
          /\ Sender \in DOMAIN two_factor_asked
          /\ before.pending_authentications[Sender] = two_factor_asked[Sender]
          /\ client_log[i].client = two_factor_asked[Sender].client

\* a password was passed on while another user had an entry of a later
\* phone submission
C20_Witness ==
    /\ PasswordCalls # {}
    /\ \E v \in DOMAIN before.pending_authentications :
          /\ v # Sender
          /\ before.pending_authentications[v].client
                > before.pending_authentications[Sender].client

\* the user's entry, as a task reads it
EntryNow(u) == IF u \in DOMAIN pending_authentications
               THEN pending_authentications[u] ELSE NoEntry

\* the conversation state, as a task reads it
StateRead(u) == IF u \in DOMAIN user_states THEN user_states[u] ELSE "none"

\* C16 as claimed: no task is suspended at an await of the transport or of
\* the account client between a read of user_states or
\* pending_authentications and the write that depends on it.
C16_NoSuspensionBeforeWrite ==
    \A i \in DOMAIN tasks :
        tasks[i].at \in SuspensionPoints => ~tasks[i].write_due

\* C16 as amended: tasks are suspended between their reads and the writes
\* that depend on them, but there is one task at a time, and what it has
\* read is what the dicts hold while it is suspended: the state it read, as
\* long as a write of it is ahead, and the entry it read, as long as it awaits
\* sign_in; when the task has ended the program state is the one the call
\* yields when it runs without interruption.
C16_ReadsStayCurrent ==
    /\ Len(tasks) <= 1
    /\ \A i \in DOMAIN tasks :
          LET t == tasks[i]
          IN /\ (t.at \in SuspensionPoints /\ t.write_due)
                    => StateRead(t.update.from) = t.state_read
             /\ t.at = "sign_in" => EntryNow(t.update.from) = t.auth_read
             /\ t.at = "done" => Program(State) = t.expect

\* a task awaits sign_in with the state and the entry it has read, and the
\* deletion of both ahead of it
C16_Witness ==
    \E i \in DOMAIN tasks :
        /\ tasks[i].at = "sign_in"
        /\ tasks[i].write_due
        /\ tasks[i].state_read = "waiting_2fa"
        /\ tasks[i].auth_read # NoEntry

\* send_code was called in the last call and obtained no code
NoCodeObtained == result.call = "send_code" /\ ~CodeSent

\* C21: a send_code call that obtains no code (invalid phone number, rate
\* limit, any other error, already authorized) leaves the registry as it was,
\* so that an entry the user had survives with its old phone number, and the
\* user's conversation state is idle afterwards.
C21_NoCodeKeepsEntryAndIdles ==
    NoCodeObtained =>
        /\ PendingUnchanged
        /\ StateNow(Sender) = "idle"

\* C22: when a sign-in succeeds, the numbers row marked authenticated is the
\* row inserted by the phone submission that stored the entry signed in with
\* (also when several rows exist for the user and phone number), and that row
\* is not left with status 'pending'.
C22_FlowRecordIsAuthenticated ==
    SignInSucceeded =>
        /\ Sender \in DOMAIN started_by
        /\ LET row == numbers[started_by[Sender]]
           IN /\ row.user_id = Sender
              /\ row.phone_number
                    = before.pending_authentications[Sender].phone_number
              /\ StoreCalls("update_number_status")[1].number_id = row.id
              /\ row.status = "authenticated"
              /\ row.is_authenticated

\* the rows of a table that carry the user's id
RowsOf(table, u) == SelectSeq(table, LAMBDA row : row.user_id = u)

\* what the program holds of a user
HeldOf(u) == [state |-> StateRead(u),
              entry |-> EntryNow(u),
              numbers |-> RowsOf(numbers, u),
              sessions |-> RowsOf(sessions, u)]

\* C23: a call of process_update for an update sent by user u leaves the
\* conversation state and the pending entry of every other user as they
\* were, and the rows it inserts or updates in the numbers and the sessions
\* table carry the id of u.
C23_OtherUsersUntouched ==
    [][\A v \in FlowUsers \ {last_update'.from} :
          /\ HeldOf(v)' = HeldOf(v)
          /\ \A i \in DOMAIN store_log' :
                /\ store_log'[i].op \in {"add_phone_number", "save_session"}
                      => store_log'[i].user_id # v
                /\ store_log'[i].op = "update_number_status"
                      => /\ store_log'[i].number_id \in DOMAIN numbers'
                         /\ numbers'[store_log'[i].number_id].user_id # v]_vars

\* a sign-in has succeeded for a number another user has a row and a pending
\* entry for
C23_Witness ==
    /\ SignInSucceeded
    /\ \E v \in DOMAIN pending_authentications :
          /\ v # Sender
          /\ pending_authentications[v].phone_number
                = before.pending_authentications[Sender].phone_number
          /\ RowsOf(numbers, v) # <<>>
          /\ StateNow(v) = "waiting_code"

\* the number of the poll that returned the update
PollOf(update_id) ==
    arrived[CHOOSE k \in DOMAIN arrived : arrived[k].update_id = update_id].poll

\* C24: no update is returned by two polls and none is handled twice; when a
\* call of process_update has ended, with or without an error, the offset is
\* the id of its update plus one; and the offset never decreases.
C24_HandledAtMostOnce ==
    /\ [](/\ \A i, j \in DOMAIN arrived :
                arrived[i].update_id = arrived[j].update_id => i = j
          /\ \A i, j \in DOMAIN handled :
                handled[i].update_id = handled[j].update_id => i = j
          /\ handled # <<>> =>
                offset = handled[Len(handled)].update_id + 1)
    /\ [][offset' >= offset]_vars

\* the handling of an update raised, and a later poll has returned updates
C24_Witness ==
    \E i \in DOMAIN handled, k \in DOMAIN arrived :
        /\ handled[i].error
        /\ arrived[k].poll > PollOf(handled[i].update_id)
        /\ arrived[k].update_id > handled[i].update_id

====
